---- MODULE Spec2Model ----
(***************************************************************************)
(* A model of gcs-downloader (src/main.py).                                *)
(*                                                                         *)
(* Three specifications share this module:                                   *)
(*   Spec       one call of download_with_progress: the downloader (the    *)
(*              calling thread), its progress monitor thread               *)
(*              (update_progress) and the external copy process writing    *)
(*              the destination;                                           *)
(*   SpecBatch  one call of batch_download: the ThreadPoolExecutor, its    *)
(*              workers running download_item, and the collecting caller.  *)
(* FairSpec is Spec with weak fairness on the downloader's own steps.      *)
(*   SpecMain   one run of main(): the command line, interactive_download  *)
(*              with its prompts, and the batch it may start.              *)
(*                                                                         *)
(* An external gsutil invocation ends with an exit status: main() leaves   *)
(* (line 385) before any work when the tool cannot be run, so every call   *)
(* modelled here finds it.  subprocess.run(check=True) turns a nonzero     *)
(* status into CalledProcessError.                                         *)
(***************************************************************************)
EXTENDS Integers, Sequences, FiniteSets, TLC

\* ------------------------------------------------------------------ bounds
\* Largest destination size (in abstract byte units) the copy can reach.
MaxSize == 3
\* Longest item sequence handed to batch_download.
MaxItems == 3
\* Largest explicit max_workers value.
MaxWidth == 2
\* Most numbers entered in a comma-separated selection.
MaxSelect == 2

\* ------------------------------------------------------- program constants
MAX_PARALLEL_DOWNLOADS == 16

\* total_size=None, and "no exit status yet".
None == -1

\* Exit statuses of an external process: 0, and two nonzero ones.
ExitStatuses == {0, 1, 2}

VARIABLES
    \* ---- download_with_progress
    d_pc,               \* position of the downloader (calling thread)
    total_size,         \* parameter / result of get_size_of_object
    probe_rc,           \* exit status of gsutil du
    bar_total,          \* tqdm total
    bar_n,              \* tqdm cumulative value
    bar_closed,         \* progress_bar.close() has been called
    bar_deltas,         \* every amount ever passed to progress_bar.update
    late_updates,       \* progress_bar.update calls made after close
    download_complete,  \* threading.Event
    set_count,          \* number of download_complete.set() calls
    m_pc,               \* position of the monitor thread
    previous_size,      \* update_progress local
    current_size,       \* update_progress local
    copy_rc,            \* exit status of gsutil cp
    success,            \* local of download_with_progress
    result,             \* value returned
    join_timed_out,     \* progress_thread.join returned with the thread alive
    dest_size,          \* bytes on disk under the destination
    initial_size,       \* dest_size when the call started
    final_size,         \* dest_size when the copy ended
    shrunk,             \* the destination's size has decreased at some point
    max_sampled,        \* largest size the monitor has read so far
    \* ---- batch_download
    b_pc,               \* position of the caller of batch_download
    items,              \* the item sequence
    is_folders,
    max_workers,        \* argument (None or a width)
    max_parallel,       \* the global MAX_PARALLEL_DOWNLOADS when the call is made
    pool_width,         \* width the executor was built with
    task,               \* state of each submitted future
    task_rc,            \* exit status of each item's copy
    dirs,               \* directories present under the destination
    b_next,             \* index of the next result the caller waits for
    results,            \* list(executor.map(...)) so far
    successful,
    failed,
    \* ---- main and interactive_download
    pc,                 \* position of main()
    args,               \* the parsed command line
    tool_ok,            \* gsutil version can be run
    dest_exists,        \* the destination directory exists
    dest_creatable,     \* os.makedirs(destination) would succeed
    listing,            \* items returned by list_objects
    choice,             \* answer to "Enter your choice (1-5)"
    selection,          \* the numbers entered, split at the commas
    exit_status,        \* exit status of the process (None while running)
    calls,              \* commands run and directories made, in order
    messages            \* what has been printed to report an outcome

dvars == <<d_pc, total_size, probe_rc, bar_total, bar_n, bar_closed, bar_deltas,
           late_updates, download_complete, set_count, m_pc, previous_size,
           current_size, copy_rc, success, result, join_timed_out, dest_size,
           initial_size, final_size, shrunk, max_sampled>>

bvars == <<b_pc, items, is_folders, max_workers, max_parallel, pool_width, task, task_rc, dirs,
           b_next, results, successful, failed>>

mvars == <<pc, args, tool_ok, dest_exists, dest_creatable, listing, choice,
           selection, exit_status, calls, messages>>

vars == <<dvars, bvars, mvars>>

\* ------------------------------------------------------------------------
\* download_with_progress
\* ------------------------------------------------------------------------

DownloadIdle ==
    /\ d_pc = "idle"
    /\ total_size = None
    /\ probe_rc = None
    /\ bar_total = None
    /\ bar_n = 0
    /\ bar_closed = FALSE
    /\ bar_deltas = {}
    /\ late_updates = 0
    /\ download_complete = FALSE
    /\ set_count = 0
    /\ m_pc = "unstarted"
    /\ previous_size = 0
    /\ current_size = 0
    /\ copy_rc = None
    /\ success = FALSE
    /\ result = FALSE
    /\ join_timed_out = FALSE
    /\ dest_size = 0
    /\ initial_size = 0
    /\ final_size = 0
    /\ shrunk = FALSE
    /\ max_sampled = 0

BatchIdle ==
    /\ b_pc = "idle"
    /\ items = <<>>
    /\ is_folders = FALSE
    /\ max_workers = None
    /\ max_parallel = MAX_PARALLEL_DOWNLOADS
    /\ pool_width = 0
    /\ task = <<>>
    /\ task_rc = <<>>
    /\ dirs = {}
    /\ b_next = 1
    /\ results = <<>>
    /\ successful = <<>>
    /\ failed = <<>>

MainIdle ==
    /\ pc = "idle"
    /\ args = <<>>
    /\ tool_ok = TRUE
    /\ dest_exists = TRUE
    /\ dest_creatable = TRUE
    /\ listing = <<>>
    /\ choice = ""
    /\ selection = <<>>
    /\ exit_status = None
    /\ calls = <<>>
    /\ messages = {}

\* The state when download_with_progress(source, destination) is entered:
\* the destination may already hold bytes (an earlier run; cp -n skips them).
Init ==
    /\ d_pc = "start"
    /\ total_size = None
    /\ probe_rc = None
    /\ bar_total = None
    /\ bar_n = 0
    /\ bar_closed = FALSE
    /\ bar_deltas = {}
    /\ late_updates = 0
    /\ download_complete = FALSE
    /\ set_count = 0
    /\ m_pc = "unstarted"
    /\ previous_size = 0
    /\ current_size = 0
    /\ copy_rc = None
    /\ success = FALSE
    /\ result = FALSE
    /\ join_timed_out = FALSE
    /\ dest_size \in 0..MaxSize
    /\ initial_size = dest_size
    /\ final_size = 0
    /\ shrunk = FALSE
    /\ max_sampled = 0
    /\ BatchIdle
    /\ MainIdle

\* A probe that lets the failure through as None instead of 0.
SizeOfObjectNoFallback(rc, printed) == IF rc = 0 THEN printed ELSE None

\* get_size_of_object: gsutil du exits 0 and prints the size, or exits nonzero
\* and CalledProcessError is caught.
SizeOfObject(rc, printed) == IF rc = 0 THEN printed ELSE 0

\* Lines 74-75.
GetSize ==
    /\ d_pc = "start"
    /\ \E rc \in ExitStatuses, printed \in 0..MaxSize :
          /\ probe_rc' = rc
          /\ total_size' = SizeOfObject(rc, printed)
    /\ d_pc' = "bar"
    /\ UNCHANGED <<max_sampled, bar_total, bar_n, bar_closed, bar_deltas, late_updates,
                   download_complete, set_count, m_pc, previous_size, current_size,
                   copy_rc, success, result, join_timed_out, dest_size,
                   initial_size, final_size, shrunk>>
    /\ UNCHANGED bvars
    /\ UNCHANGED mvars

\* Lines 78-81: the bar and the event.
CreateBar ==
    /\ d_pc = "bar"
    /\ bar_total' = total_size
    /\ bar_n' = 0
    /\ bar_closed' = FALSE
    /\ download_complete' = FALSE
    /\ d_pc' = "thread"
    /\ UNCHANGED <<max_sampled, total_size, probe_rc, bar_deltas, late_updates, set_count, m_pc,
                   previous_size, current_size, copy_rc, success, result,
                   join_timed_out, dest_size, initial_size, final_size, shrunk>>
    /\ UNCHANGED bvars
    /\ UNCHANGED mvars

\* Lines 109-111 and 85: the monitor thread starts with previous_size = 0.
StartThread ==
    /\ d_pc = "thread"
    /\ m_pc' = "test"
    /\ previous_size' = 0
    /\ d_pc' = "copy"
    /\ UNCHANGED <<max_sampled, total_size, probe_rc, bar_total, bar_n, bar_closed, bar_deltas,
                   late_updates, download_complete, set_count, current_size, copy_rc,
                   success, result, join_timed_out, dest_size, initial_size,
                   final_size, shrunk>>
    /\ UNCHANGED bvars
    /\ UNCHANGED mvars

\* Line 117: subprocess.run spawns gsutil cp and blocks.
CopyStart ==
    /\ d_pc = "copy"
    /\ d_pc' = "copying"
    /\ UNCHANGED <<max_sampled, total_size, probe_rc, bar_total, bar_n, bar_closed, bar_deltas,
                   late_updates, download_complete, set_count, m_pc, previous_size,
                   current_size, copy_rc, success, result, join_timed_out, dest_size,
                   initial_size, final_size, shrunk>>
    /\ UNCHANGED bvars
    /\ UNCHANGED mvars

\* The copy process writes the destination.
DestGrow ==
    /\ d_pc = "copying"
    /\ \E s \in (dest_size + 1)..MaxSize : dest_size' = s
    /\ UNCHANGED <<max_sampled, d_pc, total_size, probe_rc, bar_total, bar_n, bar_closed,
                   bar_deltas, late_updates, download_complete, set_count, m_pc,
                   previous_size, current_size, copy_rc, success, result,
                   join_timed_out, initial_size, final_size, shrunk>>
    /\ UNCHANGED bvars
    /\ UNCHANGED mvars

\* A file under the destination is removed or truncated before it is rewritten.
DestDrop ==
    /\ d_pc = "copying"
    /\ \E s \in 0..(dest_size - 1) : dest_size' = s
    /\ shrunk' = TRUE
    /\ UNCHANGED <<max_sampled, d_pc, total_size, probe_rc, bar_total, bar_n, bar_closed,
                   bar_deltas, late_updates, download_complete, set_count, m_pc,
                   previous_size, current_size, copy_rc, success, result,
                   join_timed_out, initial_size, final_size>>
    /\ UNCHANGED bvars
    /\ UNCHANGED mvars

\* A copy run without check=True: no status ever raises.
CopySuccessUnchecked(rc) == TRUE

\* Lines 133-135: success is True when run() returned, False when
\* CalledProcessError (a nonzero status) was caught.
CopySuccess(rc) == rc = 0

\* Lines 117-135: the copy process exits.
CopyExit ==
    /\ d_pc = "copying"
    /\ \E rc \in ExitStatuses :
          /\ copy_rc' = rc
          /\ success' = CopySuccess(rc)
    /\ final_size' = dest_size
    /\ d_pc' = "copied"
    /\ UNCHANGED <<max_sampled, total_size, probe_rc, bar_total, bar_n, bar_closed, bar_deltas,
                   late_updates, download_complete, set_count, m_pc, previous_size,
                   current_size, result, join_timed_out, dest_size, initial_size,
                   shrunk>>
    /\ UNCHANGED bvars
    /\ UNCHANGED mvars

\* The event set inside the try block: skipped when the copy fails.
SetCompleteOnSuccess ==
    /\ d_pc = "copied"
    /\ download_complete' = success
    /\ set_count' = IF success THEN set_count + 1 ELSE set_count
    /\ d_pc' = "join"
    /\ UNCHANGED <<max_sampled, total_size, probe_rc, bar_total, bar_n, bar_closed, bar_deltas,
                   late_updates, m_pc, previous_size, current_size, copy_rc, success,
                   result, join_timed_out, dest_size, initial_size, final_size,
                   shrunk>>
    /\ UNCHANGED bvars
    /\ UNCHANGED mvars

\* Line 138.
SetComplete ==
    /\ d_pc = "copied"
    /\ download_complete' = TRUE
    /\ set_count' = set_count + 1
    /\ d_pc' = "join"
    /\ UNCHANGED <<max_sampled, total_size, probe_rc, bar_total, bar_n, bar_closed, bar_deltas,
                   late_updates, m_pc, previous_size, current_size, copy_rc, success,
                   result, join_timed_out, dest_size, initial_size, final_size,
                   shrunk>>
    /\ UNCHANGED bvars
    /\ UNCHANGED mvars

\* A join without timeout: returns only when the monitor has exited.
JoinUnbounded ==
    /\ d_pc = "join"
    /\ m_pc = "exited"
    /\ join_timed_out' = FALSE
    /\ d_pc' = "close"
    /\ UNCHANGED <<max_sampled, total_size, probe_rc, bar_total, bar_n, bar_closed, bar_deltas,
                   late_updates, download_complete, set_count, m_pc, previous_size,
                   current_size, copy_rc, success, result, dest_size, initial_size,
                   final_size, shrunk>>
    /\ UNCHANGED bvars
    /\ UNCHANGED mvars

\* Line 141: join(timeout=1.0) returns when the monitor has exited, or after
\* the timeout with the monitor still alive.
Join ==
    /\ d_pc = "join"
    /\ join_timed_out' = (m_pc # "exited")
    /\ d_pc' = "close"
    /\ UNCHANGED <<max_sampled, total_size, probe_rc, bar_total, bar_n, bar_closed, bar_deltas,
                   late_updates, download_complete, set_count, m_pc, previous_size,
                   current_size, copy_rc, success, result, dest_size, initial_size,
                   final_size, shrunk>>
    /\ UNCHANGED bvars
    /\ UNCHANGED mvars

\* Line 144.
CloseBar ==
    /\ d_pc = "close"
    /\ bar_closed' = TRUE
    /\ d_pc' = "return"
    /\ UNCHANGED <<max_sampled, total_size, probe_rc, bar_total, bar_n, bar_deltas, late_updates,
                   download_complete, set_count, m_pc, previous_size, current_size,
                   copy_rc, success, result, join_timed_out, dest_size, initial_size,
                   final_size, shrunk>>
    /\ UNCHANGED bvars
    /\ UNCHANGED mvars

\* Line 146.
Return ==
    /\ d_pc = "return"
    /\ result' = success
    /\ d_pc' = "returned"
    /\ UNCHANGED <<max_sampled, total_size, probe_rc, bar_total, bar_n, bar_closed, bar_deltas,
                   late_updates, download_complete, set_count, m_pc, previous_size,
                   current_size, copy_rc, success, join_timed_out, dest_size,
                   initial_size, final_size, shrunk>>
    /\ UNCHANGED bvars
    /\ UNCHANGED mvars

\* ---- update_progress (the monitor thread)

\* A loop that also stops once the expected total has been accounted for.
LoopExitsAtTotal == download_complete \/ previous_size >= total_size

\* Line 86: while not download_complete.is_set().
LoopExits == download_complete

MonTest ==
    /\ m_pc = "test"
    /\ m_pc' = IF LoopExits THEN "exited" ELSE "stat"
    /\ UNCHANGED <<max_sampled, d_pc, total_size, probe_rc, bar_total, bar_n, bar_closed,
                   bar_deltas, late_updates, download_complete, set_count,
                   previous_size, current_size, copy_rc, success, result,
                   join_timed_out, dest_size, initial_size, final_size, shrunk>>
    /\ UNCHANGED bvars
    /\ UNCHANGED mvars

\* A comparison for inequality instead of growth.
NeedsUpdateOnChange(cur, prev) == cur # prev

\* Line 97: the bar is updated only for a positive difference.
NeedsUpdate(cur, prev) == cur > prev

\* Lines 89-97 and 102: the size is read; without growth the thread sleeps and
\* tests the flag again.
MonStat ==
    /\ m_pc = "stat"
    /\ current_size' = dest_size
    /\ max_sampled' = IF dest_size > max_sampled THEN dest_size ELSE max_sampled
    /\ m_pc' = IF NeedsUpdate(dest_size, previous_size) THEN "update" ELSE "test"
    /\ UNCHANGED <<d_pc, total_size, probe_rc, bar_total, bar_n, bar_closed,
                   bar_deltas, late_updates, download_complete, set_count,
                   previous_size, copy_rc, success, result, join_timed_out,
                   dest_size, initial_size, final_size, shrunk>>
    /\ UNCHANGED bvars
    /\ UNCHANGED mvars

\* Lines 104-106: getsize raised OSError; the sample is skipped.
MonStatError ==
    /\ m_pc = "stat"
    /\ m_pc' = "test"
    /\ UNCHANGED <<max_sampled, d_pc, total_size, probe_rc, bar_total, bar_n, bar_closed,
                   bar_deltas, late_updates, download_complete, set_count,
                   previous_size, current_size, copy_rc, success, result,
                   join_timed_out, dest_size, initial_size, final_size, shrunk>>
    /\ UNCHANGED bvars
    /\ UNCHANGED mvars

\* The absolute size passed instead of the difference.
DeltaAbsolute(cur, prev) == cur

\* Line 98: the amount passed to progress_bar.update.
Delta(cur, prev) == cur - prev

\* Line 98.
MonUpdate ==
    /\ m_pc = "update"
    /\ bar_n' = bar_n + Delta(current_size, previous_size)
    /\ bar_deltas' = bar_deltas \cup {Delta(current_size, previous_size)}
    /\ late_updates' = IF bar_closed /\ late_updates = 0 THEN 1 ELSE late_updates
    /\ m_pc' = "assign"
    /\ UNCHANGED <<max_sampled, d_pc, total_size, probe_rc, bar_total, bar_closed,
                   download_complete, set_count, previous_size, current_size,
                   copy_rc, success, result, join_timed_out, dest_size,
                   initial_size, final_size, shrunk>>
    /\ UNCHANGED bvars
    /\ UNCHANGED mvars

\* Lines 99 and 102.
MonAssign ==
    /\ m_pc = "assign"
    /\ previous_size' = current_size
    /\ m_pc' = "test"
    /\ UNCHANGED <<max_sampled, d_pc, total_size, probe_rc, bar_total, bar_n, bar_closed,
                   bar_deltas, late_updates, download_complete, set_count,
                   current_size, copy_rc, success, result, join_timed_out,
                   dest_size, initial_size, final_size, shrunk>>
    /\ UNCHANGED bvars
    /\ UNCHANGED mvars

\* The steps of the thread that called download_with_progress.
Downloader ==
    \/ GetSize
    \/ CreateBar
    \/ StartThread
    \/ CopyStart
    \/ SetComplete
    \/ Join
    \/ CloseBar
    \/ Return

Next ==
    \/ GetSize
    \/ CreateBar
    \/ StartThread
    \/ CopyStart
    \/ DestGrow
    \/ DestDrop
    \/ CopyExit
    \/ SetComplete
    \/ Join
    \/ CloseBar
    \/ Return
    \/ MonTest
    \/ MonStat
    \/ MonStatError
    \/ MonUpdate
    \/ MonAssign

Spec == Init /\ [][Next]_vars

\* The calling thread is scheduled; the copy process (no timeout, line 117) and
\* the daemon monitor thread (a slow walk of the destination) may stall.
FairSpec == Spec /\ WF_vars(Downloader)

\* ------------------------------------------------------------------------
\* batch_download
\* ------------------------------------------------------------------------

\* A path is the sequence of its components after the bucket scheme; a
\* trailing separator leaves an empty last component ("gs://b/x/d/" is
\* <<"b", "x", "d", "">>).
Paths == { <<"b", "x", "d", "">>, <<"b", "y", "d", "">>, <<"b", "a.txt">> }

\* os.path.basename: what follows the last separator.
Basename(p) == IF Len(p) = 0 THEN "" ELSE p[Len(p)]

\* str.rstrip('/'): the trailing separators removed.
RECURSIVE RStripSlash(_)
RStripSlash(p) ==
    IF Len(p) > 0 /\ p[Len(p)] = ""
    THEN RStripSlash(SubSeq(p, 1, Len(p) - 1))
    ELSE p

\* Lines 161-162 and 168-169: the name joined to the destination directory.
DestName(item, folders) ==
    IF folders THEN Basename(RStripSlash(item)) ELSE Basename(item)

\* Sequences over S of length 1..n.
SeqsUpTo(S, n) == UNION { [1..k -> S] : k \in 1..n }

\* The state when batch_download(items, destination, is_folders, max_workers)
\* is entered: the callers pass a non-empty selection; the width is the
\* argument, or the global that main() set from --max-parallel (line 380).
InitBatch ==
    /\ DownloadIdle
    /\ MainIdle
    /\ b_pc = "start"
    /\ items \in SeqsUpTo(Paths, MaxItems)
    /\ is_folders \in BOOLEAN
    /\ \/ max_workers = None /\ max_parallel \in 1..MaxWidth \cup {MAX_PARALLEL_DOWNLOADS}
       \/ max_workers \in 1..MaxWidth /\ max_parallel = MAX_PARALLEL_DOWNLOADS
    /\ pool_width = 0
    /\ task = <<>>
    /\ task_rc = <<>>
    /\ dirs \in IF is_folders THEN {{}, {"d"}} ELSE {{}}
    /\ b_next = 1
    /\ results = <<>>
    /\ successful = <<>>
    /\ failed = <<>>

\* Lines 151-152.
PoolWidth(arg, global) == IF arg = None THEN global ELSE arg

\* Lines 151-155 and 175-176: the executor is built and map submits one
\* future per item.
BatchStart ==
    /\ b_pc = "start"
    /\ pool_width' = PoolWidth(max_workers, max_parallel)
    /\ task' = [i \in 1..Len(items) |-> "pending"]
    /\ task_rc' = [i \in 1..Len(items) |-> None]
    /\ b_pc' = "map"
    /\ UNCHANGED <<items, is_folders, max_workers, max_parallel, dirs, b_next,
                   results, successful, failed>>
    /\ UNCHANGED dvars
    /\ UNCHANGED mvars

\* The futures a worker thread is running.
Running == { i \in DOMAIN task : task[i] \in {"mkdir", "copying"} }

\* The copy invocations in flight.
InFlight == { i \in DOMAIN task : task[i] = "copying" }

\* A pool that admits one worker too many.
WorkerFreeOffByOne == Cardinality(Running) <= pool_width

\* Line 175: at most max_workers threads take futures from the queue.
WorkerFree == Cardinality(Running) < pool_width

\* Lines 158-165, 168-170: a worker takes the oldest pending future and runs
\* download_item up to the makedirs call or, when no directory has to be
\* made, up to the copy invocation.
TaskStart(i) ==
    /\ b_pc \in {"map", "unwind"}
    /\ task[i] = "pending"
    /\ \A j \in 1..(i - 1) : task[j] # "pending"
    /\ WorkerFree
    /\ task' = [task EXCEPT ![i] =
                  IF is_folders /\ DestName(items[i], TRUE) \notin dirs
                  THEN "mkdir" ELSE "copying"]
    /\ UNCHANGED <<b_pc, items, is_folders, max_workers, max_parallel, pool_width,
                   task_rc, dirs, b_next, results, successful, failed>>
    /\ UNCHANGED dvars
    /\ UNCHANGED mvars

\* Lines 164-165: os.makedirs creates the directory, or raises FileExistsError
\* when it has appeared since the exists() test; then the copy is invoked.
MakeDirs(i) ==
    /\ task[i] = "mkdir"
    /\ IF DestName(items[i], TRUE) \in dirs
       THEN /\ task' = [task EXCEPT ![i] = "raised"]
            /\ dirs' = dirs
       ELSE /\ task' = [task EXCEPT ![i] = "copying"]
            /\ dirs' = dirs \cup {DestName(items[i], TRUE)}
    /\ UNCHANGED <<b_pc, items, is_folders, max_workers, max_parallel, pool_width,
                   task_rc, b_next, results, successful, failed>>
    /\ UNCHANGED dvars
    /\ UNCHANGED mvars

\* Lines 117-146 and 172: the item's copy exits and download_item returns
\* (item, success).
CopyFinish(i) ==
    /\ task[i] = "copying"
    /\ \E rc \in ExitStatuses :
          /\ task_rc' = [task_rc EXCEPT ![i] = rc]
          /\ task' = [task EXCEPT ![i] = IF CopySuccess(rc) THEN "ok" ELSE "fail"]
    /\ UNCHANGED <<b_pc, items, is_folders, max_workers, max_parallel, pool_width,
                   dirs, b_next, results, successful, failed>>
    /\ UNCHANGED dvars
    /\ UNCHANGED mvars

\* Line 176: list() takes the next result, in submission order.
Collect ==
    /\ b_pc = "map"
    /\ b_next <= Len(items)
    /\ task[b_next] \in {"ok", "fail"}
    /\ results' = Append(results, <<items[b_next], task[b_next] = "ok">>)
    /\ b_next' = b_next + 1
    /\ UNCHANGED <<b_pc, items, is_folders, max_workers, max_parallel, pool_width,
                   task, task_rc, dirs, successful, failed>>
    /\ UNCHANGED dvars
    /\ UNCHANGED mvars

\* Line 176: the next future holds an exception; the result iterator cancels
\* the futures not yet started and the exception leaves list().
CollectRaise ==
    /\ b_pc = "map"
    /\ b_next <= Len(items)
    /\ task[b_next] = "raised"
    /\ task' = [i \in DOMAIN task |->
                  IF task[i] = "pending" THEN "cancelled" ELSE task[i]]
    /\ b_pc' = "unwind"
    /\ UNCHANGED <<items, is_folders, max_workers, max_parallel, pool_width,
                   task_rc, dirs, b_next, results, successful, failed>>
    /\ UNCHANGED dvars
    /\ UNCHANGED mvars

\* Line 175: leaving the with block waits for the running futures; the
\* exception then leaves batch_download.
Unwind ==
    /\ b_pc = "unwind"
    /\ Running = {}
    /\ b_pc' = "raised"
    /\ UNCHANGED <<items, is_folders, max_workers, max_parallel, pool_width, task,
                   task_rc, dirs, b_next, results, successful, failed>>
    /\ UNCHANGED dvars
    /\ UNCHANGED mvars

\* The items of the results with the given success value, in order.
ItemsWith(rs, ok) ==
    LET sel == SelectSeq(rs, LAMBDA r : r[2] = ok)
    IN  [k \in 1..Len(sel) |-> sel[k][1]]

\* Lines 178-188.
Report ==
    /\ b_pc = "map"
    /\ b_next = Len(items) + 1
    /\ successful' = ItemsWith(results, TRUE)
    /\ failed' = ItemsWith(results, FALSE)
    /\ b_pc' = "done"
    /\ UNCHANGED <<items, is_folders, max_workers, max_parallel, pool_width, task,
                   task_rc, dirs, b_next, results>>
    /\ UNCHANGED dvars
    /\ UNCHANGED mvars

NextBatch ==
    \/ BatchStart
    \/ \E i \in DOMAIN task : TaskStart(i)
    \/ \E i \in DOMAIN task : MakeDirs(i)
    \/ \E i \in DOMAIN task : CopyFinish(i)
    \/ Collect
    \/ CollectRaise
    \/ Unwind
    \/ Report

SpecBatch == InitBatch /\ [][NextBatch]_vars

\* ------------------------------------------------------------------------
\* main and interactive_download
\* ------------------------------------------------------------------------

\* The bucket, and what the listing of the bucket can return: nothing (an
\* empty bucket or a failed gsutil ls), or a file and a folder.
BucketPath == <<"b">>
Listings == { <<>>, << <<"b", "a.txt">>, <<"b", "dir", "">> >> }

\* Answers to the menu (line 292) and numbers typed at a selection prompt.
Choices == {"1", "2", "3", "4", "5", "6"}
Tokens == {"0", "1", "2", "3", "x"}

\* int(text): ValueError unless the text is a number.
Numeric(tok) == tok \in {"0", "1", "2", "3"}
IntOf(tok) ==
    CASE tok = "0" -> 0
      [] tok = "1" -> 1
      [] tok = "2" -> 2
      [] tok = "3" -> 3

\* An index taken as typed, without the shift to 0-based.
IndexOfUnshifted(tok) == IntOf(tok)

\* Lines 302, 315, 326, 343: int(...) - 1.
IndexOf(tok) == IntOf(tok) - 1

\* Lines 303, 316, 327, 344: 0 <= idx < len(items).
ValidIndex(idx, lst) == 0 <= idx /\ idx < Len(lst)

\* Lines 316, 344: the items at the valid indices, in the order typed.
Selected(toks, lst) ==
    LET ok == SelectSeq(toks, LAMBDA t : ValidIndex(IndexOf(t), lst))
    IN  [k \in 1..Len(ok) |-> lst[IndexOf(ok[k]) + 1]]

\* One command run, or directory made; dst is the name under the destination
\* directory ("" is the destination directory itself).
Call(op, src, dst) == [op |-> op, src |-> src, dst |-> dst]

\* The command lines main() can be given.  no_args is len(sys.argv) == 1; a
\* missing --bucket is ""; --file is a.txt and --folder is dir/.
CommandLines ==
    { [no_args |-> n, interactive |-> i, bucket |-> b, target |-> t, max_parallel |-> w] :
        n \in BOOLEAN, i \in BOOLEAN, b \in {"", "b"},
        t \in {"none", "file", "folder"},
        w \in {MaxWidth, MAX_PARALLEL_DOWNLOADS} }

InitMain ==
    /\ DownloadIdle
    /\ pc = "start"
    /\ args \in { a \in CommandLines :
                    /\ a.no_args => (~a.interactive /\ a.bucket = "" /\ a.target = "none"
                                     /\ a.max_parallel = MAX_PARALLEL_DOWNLOADS)
                    /\ a.interactive => (a.bucket = "" /\ a.target = "none")
                    /\ a.bucket = "" => a.target = "none" }
    /\ tool_ok \in BOOLEAN
    /\ dest_exists \in BOOLEAN
    /\ dest_creatable \in BOOLEAN
    /\ dest_exists => dest_creatable
    /\ dirs \in IF dest_exists THEN {{}, {"dir"}} ELSE {{}}
    /\ listing = <<>>
    /\ choice = ""
    /\ selection = <<>>
    /\ exit_status = None
    /\ calls = <<>>
    /\ messages = {}
    /\ b_pc = "idle"
    /\ items = <<>>
    /\ is_folders = FALSE
    /\ max_workers = None
    /\ max_parallel = MAX_PARALLEL_DOWNLOADS
    /\ pool_width = 0
    /\ task = <<>>
    /\ task_rc = <<>>
    /\ b_next = 1
    /\ results = <<>>
    /\ successful = <<>>
    /\ failed = <<>>

\* Lines 375-385: the flags are parsed, the globals set, and the tool checked.
MainStart ==
    /\ pc = "start"
    /\ max_parallel' = args.max_parallel
    /\ IF tool_ok
       THEN /\ pc' = "optimize"
            /\ UNCHANGED <<exit_status, messages>>
       ELSE /\ pc' = "exit"
            /\ exit_status' = 1
            /\ messages' = messages \cup {"Error: gsutil is not installed"}
    /\ UNCHANGED <<args, tool_ok, dest_exists, dest_creatable, listing, choice,
                   selection, calls>>
    /\ UNCHANGED <<b_pc, items, is_folders, max_workers, pool_width, task, task_rc,
                   dirs, b_next, results, successful, failed>>
    /\ UNCHANGED dvars

\* Lines 388-393 and 202-230: gsutil config is run unless ~/.boto already has
\* the settings (every exception is swallowed); then the mode is chosen.
MainOptimize ==
    /\ pc = "optimize"
    /\ \E has_optimizations \in BOOLEAN :
          calls' = IF has_optimizations THEN calls
                   ELSE Append(calls, Call("config", <<>>, ""))
    /\ pc' = IF args.interactive \/ args.no_args THEN "i_bucket" ELSE "dest"
    /\ UNCHANGED <<args, tool_ok, dest_exists, dest_creatable, listing, choice,
                   selection, exit_status, messages>>
    /\ UNCHANGED bvars
    /\ UNCHANGED dvars

\* Lines 254-260 and 399-405: the directory is made when it is missing.
\* Returns TRUE when the directory exists afterwards.
EnsureDestination ==
    IF dest_exists
    THEN /\ UNCHANGED <<dest_exists, calls>>
    ELSE IF dest_creatable
         THEN /\ dest_exists' = TRUE
              /\ calls' = Append(calls, Call("mkdir", <<>>, ""))
         ELSE /\ UNCHANGED <<dest_exists, calls>>

\* Lines 396-405.
MainDest ==
    /\ pc = "dest"
    /\ EnsureDestination
    /\ IF dest_exists \/ dest_creatable
       THEN /\ pc' = "bucket"
            /\ UNCHANGED <<exit_status, messages>>
       ELSE /\ pc' = "exit"
            /\ exit_status' = 1
            /\ messages' = messages \cup {"Error creating destination directory"}
    /\ UNCHANGED <<args, tool_ok, dest_creatable, listing, choice, selection>>
    /\ UNCHANGED bvars
    /\ UNCHANGED dvars

\* Lines 408-411.
MainBucket ==
    /\ pc = "bucket"
    /\ IF args.bucket = ""
       THEN /\ pc' = "exit"
            /\ exit_status' = 1
            /\ messages' = messages \cup {"Error: Bucket path is required"}
       ELSE /\ pc' = "transfer"
            /\ UNCHANGED <<exit_status, messages>>
    /\ UNCHANGED <<args, tool_ok, dest_exists, dest_creatable, listing, choice,
                   selection, calls>>
    /\ UNCHANGED bvars
    /\ UNCHANGED dvars

\* The copy run before the subdirectory is made.
FolderCallsCopyFirst(src) ==
    LET name == DestName(src, TRUE)
    IN  <<Call("cp", src, name)>>
        \o (IF name \in dirs THEN <<>> ELSE <<Call("mkdir", <<>>, name)>>)

\* The calls of one folder download: the subdirectory is made when it is
\* missing (lines 332-333, 438-439), then the copy is run (lines 335, 442).
FolderCalls(src) ==
    LET name == DestName(src, TRUE)
    IN  (IF name \in dirs THEN <<>> ELSE <<Call("mkdir", <<>>, name)>>)
        \o <<Call("cp", src, name)>>


\* Lines 419-457: the file, the folder or the whole bucket is downloaded and
\* the outcome printed; main returns.
MainTransfer ==
    /\ pc = "transfer"
    /\ \E rc \in ExitStatuses :
          /\ messages' = messages \cup
                {IF CopySuccess(rc) THEN "Successfully downloaded" ELSE "Failed to download"}
          /\ CASE args.target = "file" ->
                    /\ calls' = Append(calls, Call("cp", BucketPath \o <<"a.txt">>,
                                                   DestName(<<"a.txt">>, FALSE)))
                    /\ dirs' = dirs
               [] args.target = "folder" ->
                    /\ calls' = calls \o FolderCalls(BucketPath \o <<"dir", "">>)
                    /\ dirs' = dirs \cup {DestName(<<"dir", "">>, TRUE)}
               [] OTHER ->
                    /\ calls' = Append(calls, Call("cp", BucketPath, ""))
                    /\ dirs' = dirs
    /\ pc' = "exit"
    /\ exit_status' = 0
    /\ UNCHANGED <<args, tool_ok, dest_exists, dest_creatable, listing, choice,
                   selection>>
    /\ UNCHANGED <<b_pc, items, is_folders, max_workers, max_parallel, pool_width,
                   task, task_rc, b_next, results, successful, failed>>
    /\ UNCHANGED dvars

\* Lines 267-292: the bucket is asked for and listed; with nothing listed
\* interactive_download returns, otherwise the menu is answered.
InteractiveList ==
    /\ pc = "i_bucket"
    /\ \E l \in Listings, c \in Choices :
          /\ listing' = l
          /\ calls' = Append(calls, Call("ls", BucketPath, ""))
          /\ IF l = <<>>
             THEN /\ messages' = messages \cup {"No items found"}
                  /\ pc' = "exit"
                  /\ exit_status' = 0
                  /\ choice' = choice
             ELSE /\ choice' = c
                  /\ pc' = "i_dest"
                  /\ UNCHANGED <<messages, exit_status>>
    /\ UNCHANGED <<args, tool_ok, dest_exists, dest_creatable, selection>>
    /\ UNCHANGED bvars
    /\ UNCHANGED dvars

\* Lines 295-297 and 242-262: prompt_for_destination.
InteractiveDest ==
    /\ pc = "i_dest"
    /\ EnsureDestination
    /\ IF dest_exists \/ dest_creatable
       THEN /\ pc' = "i_select"
            /\ UNCHANGED <<exit_status, messages>>
       ELSE /\ pc' = "exit"
            /\ exit_status' = 0
            /\ messages' = messages \cup {"Error creating directory"}
    /\ UNCHANGED <<args, tool_ok, dest_creatable, listing, choice, selection>>
    /\ UNCHANGED bvars
    /\ UNCHANGED dvars

\* Lines 300-309 and 324-337: one number is read.  int() of a text that is no
\* number raises ValueError, which nothing catches: the process ends with a
\* traceback and status 1.
InteractiveSingle ==
    /\ pc = "i_select"
    /\ choice \in {"1", "3"}
    /\ \E tok \in Tokens, rc \in ExitStatuses :
          /\ selection' = <<tok>>
          /\ IF ~Numeric(tok)
             THEN /\ exit_status' = 1
                  /\ UNCHANGED <<calls, dirs, messages>>
             ELSE /\ exit_status' = 0
                  /\ IF ValidIndex(IndexOf(tok), listing)
                     THEN LET src == listing[IndexOf(tok) + 1]
                          IN  IF choice = "1"
                              THEN /\ calls' = Append(calls,
                                                  Call("cp", src, DestName(src, FALSE)))
                                   /\ UNCHANGED <<dirs, messages>>
                              ELSE /\ calls' = calls \o FolderCalls(src)
                                   /\ dirs' = dirs \cup {DestName(src, TRUE)}
                                   /\ UNCHANGED messages
                     ELSE /\ messages' = messages \cup {"Invalid selection"}
                          /\ UNCHANGED <<calls, dirs>>
    /\ pc' = "exit"
    /\ UNCHANGED <<args, tool_ok, dest_exists, dest_creatable, listing, choice>>
    /\ UNCHANGED <<b_pc, items, is_folders, max_workers, max_parallel, pool_width,
                   task, task_rc, b_next, results, successful, failed>>
    /\ UNCHANGED dvars

\* Lines 311-322 and 339-350: comma-separated numbers are read; ValueError is
\* caught; the indices out of range are dropped; batch_download is called
\* when an item is left.
InteractiveMulti ==
    /\ pc = "i_select"
    /\ choice \in {"2", "4"}
    /\ \E toks \in SeqsUpTo(Tokens, MaxSelect) :
          /\ selection' = toks
          /\ IF \E k \in 1..Len(toks) : ~Numeric(toks[k])
             THEN /\ messages' = messages \cup {"Invalid input"}
                  /\ pc' = "exit"
                  /\ exit_status' = 0
                  /\ UNCHANGED <<b_pc, items, is_folders>>
             ELSE IF Selected(toks, listing) = <<>>
                  THEN /\ messages' = messages \cup {"No valid items selected"}
                       /\ pc' = "exit"
                       /\ exit_status' = 0
                       /\ UNCHANGED <<b_pc, items, is_folders>>
                  ELSE /\ items' = Selected(toks, listing)
                       /\ is_folders' = (choice = "4")
                       /\ b_pc' = "start"
                       /\ pc' = "batch"
                       /\ UNCHANGED <<messages, exit_status>>
    /\ UNCHANGED <<args, tool_ok, dest_exists, dest_creatable, listing, choice, calls>>
    /\ UNCHANGED <<max_workers, max_parallel, pool_width, task, task_rc, dirs, b_next,
                   results, successful, failed>>
    /\ UNCHANGED dvars

\* Lines 318, 346 and 392-393: batch_download has returned, and main returns;
\* or its exception leaves main and the process ends with status 1.
InteractiveAfterBatch ==
    /\ pc = "batch"
    /\ b_pc \in {"done", "raised"}
    /\ exit_status' = IF b_pc = "done" THEN 0 ELSE 1
    /\ pc' = "exit"
    /\ UNCHANGED <<args, tool_ok, dest_exists, dest_creatable, listing, choice,
                   selection, calls, messages>>
    /\ UNCHANGED bvars
    /\ UNCHANGED dvars

\* Lines 352-359: the whole bucket, or no valid menu answer.
InteractiveOther ==
    /\ pc = "i_select"
    /\ choice \notin {"1", "2", "3", "4"}
    /\ IF choice = "5"
       THEN /\ \E rc \in ExitStatuses : calls' = Append(calls, Call("cp", BucketPath, ""))
            /\ UNCHANGED messages
       ELSE /\ messages' = messages \cup {"Invalid choice"}
            /\ UNCHANGED calls
    /\ pc' = "exit"
    /\ exit_status' = 0
    /\ UNCHANGED <<args, tool_ok, dest_exists, dest_creatable, listing, choice,
                   selection>>
    /\ UNCHANGED bvars
    /\ UNCHANGED dvars

NextMain ==
    \/ MainStart
    \/ MainOptimize
    \/ MainDest
    \/ MainBucket
    \/ MainTransfer
    \/ InteractiveList
    \/ InteractiveDest
    \/ InteractiveSingle
    \/ InteractiveMulti
    \/ InteractiveAfterBatch
    \/ InteractiveOther
    \/ (pc = "batch" /\ NextBatch)

SpecMain == InitMain /\ [][NextMain]_vars

\* ------------------------------------------------------------------------
\* Properties of batch_download
\* ------------------------------------------------------------------------

\* batch_download has returned or raised.
BatchOver == b_pc \in {"done", "raised"}

\* C1: whatever the number of items and the pool width, when batch_download is
\* over every item has completed (none dropped) and the items reported
\* successful and failed add up to the number of items.
C1_AllItemsComplete ==
    BatchOver =>
        /\ \A i \in DOMAIN task : task[i] \in {"ok", "fail"}
        /\ Len(successful) + Len(failed) = Len(items)

\* C2: when batch_download is over, a copy has been invoked for every item,
\* whatever the other items' copies did, and an item whose own copy exited
\* with status 0 is among the successful ones.
C2_SiblingsAttempted ==
    BatchOver =>
        \A y \in DOMAIN task :
            /\ task_rc[y] # None
            /\ task_rc[y] = 0 =>
                  \E k \in 1..Len(successful) : successful[k] = items[y]

\* C10: the copy invocations in flight never outnumber the pool width, which is
\* max_workers when given and otherwise the global maximum (16, or the value
\* of --max-parallel).
C10_InFlightWithinWidth ==
    /\ Cardinality(InFlight) <= pool_width
    /\ b_pc # "start" =>
          pool_width = (IF max_workers = None THEN max_parallel ELSE max_workers)

\* The pool is full of copies in flight while another item waits.
C10_Witness ==
    /\ b_pc = "map"
    /\ pool_width = 2
    /\ Cardinality(InFlight) = 2
    /\ \E i \in DOMAIN task : task[i] = "pending"


\* The copy invocations an item has caused.
CopyInvocations(i) == IF task[i] \in {"copying", "ok", "fail"} THEN 1 ELSE 0

\* C11: no two transfers that run at the same time have the same destination
\* path, whatever the items (shared basenames, an item selected twice).
C11_DestinationsUnique ==
    \A i, j \in InFlight :
        i # j => DestName(items[i], is_folders) # DestName(items[j], is_folders)

\* C12: when batch_download is over, each entry of the item sequence has
\* caused exactly one copy invocation, whether it succeeded or failed, and
\* every item whose copy failed is in the failure report by its source path.
C12_OneCopyPerEntry ==
    BatchOver =>
        \A i \in DOMAIN task :
            /\ CopyInvocations(i) = 1
            /\ task[i] = "fail" => \E k \in 1..Len(failed) : failed[k] = items[i]

\* C17: in folder mode the creation of an item's destination subdirectory
\* never fails, under any interleaving of the workers, and the subdirectory
\* exists before the item's copy is invoked.
C17_MakeDirsIdempotent ==
    is_folders =>
        \A i \in DOMAIN task :
            /\ task[i] # "raised"
            /\ task[i] \in {"copying", "ok", "fail"} =>
                  DestName(items[i], TRUE) \in dirs

\* ------------------------------------------------------------------------
\* Properties of download_with_progress
\* ------------------------------------------------------------------------

\* The downloader is past download_complete.set().
AfterSet == d_pc \in {"join", "close", "return", "returned"}

\* C3 as stated: for a non-decreasing sequence of destination sizes, the bar's
\* total advancement when the call returns is final_size - initial_size.
C3_AdvanceIsFinalMinusInitial ==
    (d_pc = "returned" /\ ~shrunk) => bar_n = final_size - initial_size

\* C3 amended: for a non-decreasing sequence of destination sizes, the bar's
\* total advancement when the call returns is the size the monitor has
\* accounted for, counted from zero (previous_size, or the sample being applied
\* between lines 98 and 99): it includes the bytes present at the start and
\* never exceeds final_size; no byte is counted twice.
C3_AdvanceIsSampledSize ==
    (d_pc = "returned" /\ ~shrunk) =>
        /\ bar_n <= final_size
        /\ \/ bar_n = previous_size
           \/ m_pc = "assign" /\ bar_n = current_size

\* The call has returned after a growing copy that the monitor saw in part.
C3_Witness ==
    /\ d_pc = "returned"
    /\ ~shrunk
    /\ initial_size > 0
    /\ final_size > initial_size
    /\ bar_n > 0
    /\ bar_n < final_size

\* C4: whatever the destination's sizes do (drops, stat errors), the bar's
\* cumulative value never decreases, and every amount passed to update is
\* strictly positive (a non-positive difference causes no update).
C4_BarNeverDecrements ==
    /\ [](\A d \in bar_deltas : d > 0)
    /\ [][bar_n' >= bar_n]_vars

\* The monitor has sampled a size below what it had accounted for.
C4_Witness ==
    /\ shrunk
    /\ m_pc = "test"
    /\ current_size < previous_size
    /\ bar_n = previous_size
    /\ bar_n > 0

\* C5: the value returned is True exactly when the copy exited with status 0,
\* whatever the probe and the monitor did.
C5_ReturnsCopySuccess ==
    d_pc = "returned" => (result <=> copy_rc = 0)

\* A failed copy has been reported after a failed probe, the monitor still alive.
C5_Witness ==
    /\ d_pc = "returned"
    /\ copy_rc # 0
    /\ ~result
    /\ probe_rc # 0
    /\ m_pc # "exited"

\* C6: while the copy call is running, the stop signal is not set and the
\* monitor's loop has not exited.
C6_CopyBeforeShutdown ==
    (download_complete \/ m_pc = "exited") => AfterSet

\* The monitor has been polling while the copy is running.
C6_Witness ==
    /\ d_pc = "copying"
    /\ m_pc = "test"
    /\ previous_size > 0
    /\ ~download_complete

C8_AlwaysReturns ==
    (d_pc = "copied") ~> (d_pc = "returned" /\ bar_closed)

\* The call has returned while the monitor thread is still alive.
C8_Witness ==
    /\ d_pc = "returned"
    /\ join_timed_out
    /\ m_pc # "exited"

\* The size probe exited with a nonzero status.
ProbeFailed == probe_rc # None /\ probe_rc # 0

\* C9: when the size probe fails, get_size_of_object gives 0, the download goes
\* on with that total, the copy is invoked, and the value returned is the
\* copy's result.
C9_ProbeFailureIsSoft ==
    /\ [](ProbeFailed => total_size = 0)
    /\ []((ProbeFailed /\ bar_total # None) => bar_total = 0)
    /\ []((ProbeFailed /\ d_pc = "returned") => (result <=> copy_rc = 0))
    /\ ((ProbeFailed /\ d_pc = "bar") ~> (d_pc = "copying"))

\* A download whose probe failed has returned a successful copy.
C9_Witness ==
    /\ ProbeFailed
    /\ d_pc = "returned"
    /\ bar_total = 0
    /\ copy_rc = 0
    /\ result

\* C18: the progress bar is never updated after it has been closed, in any
\* interleaving of the monitor thread and the downloader.
C18_NoUpdateAfterClose ==
    late_updates = 0

\* The monitor thread is in its polling loop.
InLoop == m_pc \in {"test", "stat", "update", "assign"}

\* C19 as stated: at every point of the polling loop the bar's cumulative
\* advancement equals previous_size, which equals the largest size sampled so
\* far.
C19_BarIsPreviousIsMax ==
    InLoop => (bar_n = previous_size /\ previous_size = max_sampled)

\* C19 amended: at the loop test and while the size is measured (lines 86-97)
\* the bar's cumulative advancement equals previous_size, which equals the
\* largest size sampled so far (0 before the first sample); while a larger
\* sample is being applied, previous_size is still the earlier maximum and the
\* bar equals it before line 98 and the new maximum after line 98; hence the
\* advancement never exceeds the largest size sampled.
C19_BarTracksMaxSample ==
    /\ m_pc \in {"test", "stat", "exited"} =>
          (bar_n = previous_size /\ previous_size = max_sampled)
    /\ m_pc = "update" => (bar_n = previous_size /\ previous_size < max_sampled)
    /\ m_pc = "assign" => (bar_n = max_sampled /\ previous_size < max_sampled)
    /\ bar_n <= max_sampled

\* The bar has been advanced and a later sample was smaller.
C19_Witness ==
    /\ m_pc = "test"
    /\ bar_n = previous_size
    /\ bar_n = max_sampled
    /\ bar_n > 1
    /\ current_size < previous_size

\* ------------------------------------------------------------------------
\* Properties of main and interactive_download
\* ------------------------------------------------------------------------

\* The copy commands run by main() itself, in order.
CopyCalls == SelectSeq(calls, LAMBDA c : c.op = "cp")

\* A selection has been read in modes 1-4 and holds a text that is no number
\* or a number out of range.
InvalidSelection ==
    /\ choice \in {"1", "2", "3", "4"}
    /\ \E k \in 1..Len(selection) :
          \/ ~Numeric(selection[k])
          \/ IntOf(selection[k]) < 1
          \/ IntOf(selection[k]) > Len(listing)

\* C13: in interactive mode an invalid selection is reported, the operation
\* ends without a copy invocation and without a directory made for the
\* selected item, and the process does not crash.
C13_InvalidSelectionAborts ==
    (pc = "exit" /\ InvalidSelection) =>
        /\ exit_status = 0
        /\ messages \cap {"Invalid selection", "Invalid input",
                          "No valid items selected"} # {}
        /\ CopyCalls = <<>>
        /\ b_pc = "idle"
        /\ \A k \in 1..Len(calls) : calls[k].op = "mkdir" => calls[k].dst = ""

\* C14: with the tool present, a destination that exists or can be made, and
\* a bucket given or an interactive run, the process ends with status 0
\* whatever the copies did.
C14_ExitStatusZero ==
    (/\ pc = "exit"
     /\ tool_ok
     /\ dest_creatable
     /\ (args.bucket # "" \/ args.interactive \/ args.no_args)) => exit_status = 0

\* The run is interactive, mode 1 (single file), and a valid number was typed.
SingleFileSelected ==
    /\ pc = "exit"
    /\ choice = "1"
    /\ Len(selection) = 1
    /\ Numeric(selection[1])
    /\ IntOf(selection[1]) >= 1
    /\ IntOf(selection[1]) <= Len(listing)

\* C15: in single-file mode a valid 1-based index i causes exactly one copy
\* invocation, from the i-th listed path to <dest>/<its basename>, and none
\* for any other entry.
C15_SingleFileOneCopy ==
    SingleFileSelected =>
        LET src == listing[IntOf(selection[1])]
        IN  /\ CopyCalls = <<Call("cp", src, Basename(src))>>
            /\ b_pc = "idle"

\* "1" was typed for the listing [gs://b/a.txt, gs://b/dir/].
C15_Witness ==
    /\ SingleFileSelected
    /\ selection = <<"1">>
    /\ listing = << <<"b", "a.txt">>, <<"b", "dir", "">> >>
    /\ CopyCalls = <<Call("cp", <<"b", "a.txt">>, "a.txt")>>

\* C16: in single-folder mode the step that reads a valid index first makes
\* the subdirectory named after the folder (separator stripped) when it is
\* absent, and only then runs exactly one copy of the folder into it.
C16_FolderDirThenCopy ==
    [][(/\ pc = "i_select"
        /\ choice = "3"
        /\ pc' = "exit"
        /\ Numeric(selection'[1])
        /\ IntOf(selection'[1]) >= 1
        /\ IntOf(selection'[1]) <= Len(listing))
       => LET src == listing[IntOf(selection'[1])]
              name == Basename(RStripSlash(src))
          IN  /\ calls' = calls
                          \o (IF name \in dirs THEN <<>>
                              ELSE <<Call("mkdir", <<>>, name)>>)
                          \o <<Call("cp", src, name)>>
              /\ name \in dirs']_vars

\* The folder was selected with <dest>/dir absent: the directory was made,
\* then the copy run.
C16_Witness ==
    /\ pc = "exit"
    /\ choice = "3"
    /\ selection = <<"2">>
    /\ Len(calls) >= 2
    /\ calls[Len(calls) - 1] = Call("mkdir", <<>>, "dir")
    /\ calls[Len(calls)] = Call("cp", <<"b", "dir", "">>, "dir")
    /\ "dir" \in dirs

\* C20: when main exits with status 1 because the bucket argument is missing,
\* no directory has been made and no listing or copy has been run.
C20_MissingBucketNoEffect ==
    (pc = "exit" /\ "Error: Bucket path is required" \in messages) =>
        /\ exit_status = 1
        /\ \A k \in 1..Len(calls) : calls[k].op \notin {"mkdir", "ls", "cp"}

====
